---- MODULE Spec2Model ----
(***************************************************************************)
(* create_pub_listing of publications.py: a bibliography text is split     *)
(* into entries, each entry is handed to the external formatter (pandoc),  *)
(* the formatter's lines are scraped and normalised, and a data file and   *)
(* a listing-definition document are written.                              *)
(*                                                                         *)
(* Text is modelled at two grains.  The bibliography text and its entries  *)
(* are sequences of characters.  A line of formatter output (and of the    *)
(* data file) is a sequence of tokens, e.g.                                *)
(*     <<"  ", "publisher", ":", " ", "ACM">>    for "  publisher: ACM"    *)
(* and a field value is the sequence of tokens after the colon (<<>> is    *)
(* the empty string).  The string operations of the code (strip, split,    *)
(* startswith, in, join, f-strings) are operators on these sequences.      *)
(*                                                                         *)
(* The formatter is external.  Its result for an entry is an input of the  *)
(* run: a non-zero exit, or framing lines around a body of "  key: value"  *)
(* lines and "  - family: name" lines, each key but family at most once.   *)
(***************************************************************************)
EXTENDS Integers, Sequences, FiniteSets, TLC

VARIABLES
    pc,                       \* position in create_pub_listing
    bib_content,              \* text of the input file
    pandoc,                   \* the formatter: entry number -> its result
    bib_entries,              \* entries after splitting
    entry_i,                  \* number of the entry the for-loop is at
    all_articles_yaml_lines,  \* accumulated output lines
    first_author_count,       \* entries with the target author first
    publisher,                \* local `publisher` (unbound until assigned)
    temp_bib_path,            \* name of the current scratch file
    tmpfiles,                 \* scratch files that exist on disk
    exc,                      \* an exception is propagating
    yml_file,                 \* the data file
    qmd_file,                 \* the definition document
    emitted                   \* history: lines appended for each entry so far

vars == <<pc, bib_content, pandoc, bib_entries, entry_i,
          all_articles_yaml_lines, first_author_count, publisher,
          temp_bib_path, tmpfiles, exc, yml_file, qmd_file, emitted>>

----------------------------------------------------------------------------
(* Bounds of the model *)

MaxTextLen == 6      \* characters of input text (splitter runs)
MaxEntries == 2      \* entries of a pipeline run
MaxRunLines == 2     \* formatter lines per entry in a pipeline run
MaxLines == 3        \* formatter lines of the entry under study (field runs)

----------------------------------------------------------------------------
(* String operations *)

\* Whitespace: the blank and the newline of a text, the indent of a line
IsSpace(c) == c \in {" ", "  ", "\n"}

RECURSIVE LStrip(_)
LStrip(s) == IF s # <<>> /\ IsSpace(Head(s)) THEN LStrip(Tail(s)) ELSE s

RECURSIVE RStrip(_)
RStrip(s) ==
    IF s # <<>> /\ IsSpace(s[Len(s)]) THEN RStrip(SubSeq(s, 1, Len(s) - 1)) ELSE s

\* str.strip()
Strip(s) == RStrip(LStrip(s))

\* str.startswith(p)
StartsWith(s, p) == Len(s) >= Len(p) /\ SubSeq(s, 1, Len(p)) = p

\* str.find(p), 1-based; 0 when p does not occur
Find(s, p) ==
    LET hits == {k \in 1..(Len(s) - Len(p) + 1) : SubSeq(s, k, k + Len(p) - 1) = p}
    IN  IF hits = {} THEN 0 ELSE CHOOSE k \in hits : \A h \in hits : k <= h

\* p in s
Contains(s, p) == Find(s, p) # 0

\* s.split(p, 1)[1], for p occurring in s
AfterFirst(s, p) == SubSeq(s, Find(s, p) + Len(p), Len(s))

\* s.split(sep)
RECURSIVE PySplit(_, _)
PySplit(s, sep) ==
    LET k == Find(s, sep)
    IN  IF k = 0 THEN <<s>>
        ELSE <<SubSeq(s, 1, k - 1)>> \o PySplit(SubSeq(s, k + Len(sep), Len(s)), sep)

\* lines[a:-b]
PySlice(lines, a, b) ==
    IF Len(lines) - b <= a THEN <<>> ELSE SubSeq(lines, a + 1, Len(lines) - b)

\* '\n'.join(lines)
RECURSIVE JoinLines(_)
JoinLines(lines) ==
    IF lines = <<>> THEN <<>>
    ELSE IF Len(lines) = 1 THEN lines[1]
    ELSE lines[1] \o <<"\n">> \o JoinLines(Tail(lines))

----------------------------------------------------------------------------
(* The entry splitter, lines 29-42 *)

Marker == <<"\n", "@">>

FirstEntry(part) ==
    LET first_entry == Strip(part)
    IN  IF first_entry # <<>> /\ ~StartsWith(first_entry, <<"@">>)
        THEN <<"@">> \o first_entry
        ELSE first_entry

\* Mutant of KeepPart: blank fragments are kept too
KeepEveryPart(entry_part) == TRUE

KeepPart(entry_part) == Strip(entry_part) # <<>>

RECURSIVE RestEntries(_)
RestEntries(parts) ==
    IF parts = <<>> THEN <<>>
    ELSE (IF KeepPart(parts[1]) THEN <<(<<"@">> \o parts[1])>> ELSE <<>>)
         \o RestEntries(Tail(parts))

SplitEntries(text) ==
    LET entries_str == PySplit(Strip(text), Marker)
        first_entry == FirstEntry(entries_str[1])
    IN  (IF first_entry # <<>> THEN <<first_entry>> ELSE <<>>)
        \o RestEntries(Tail(entries_str))

----------------------------------------------------------------------------
(* The formatter's output *)

\* A "  key: value" line and a "  - family: name" line
Field(key, val) == <<"  ", key, ":", " ">> \o val
FamilyLine(name) == <<"  ", "-", " ", "family", ":", " ", name>>

\* The framing lines pandoc --standalone puts around the references
Header == << <<"---">>, <<"nocite", ":", " ", "\"[@*]\"">>, <<"references", ":">> >>
Footer == << <<"---">>, <<>> >>

\* A result of subprocess.run: exit status and the lines of stdout
Failed == [returncode |-> 1, stdout |-> <<>>]
Rendered(body) == [returncode |-> 0, stdout |-> Header \o body \o Footer]

\* The key of a "key: value" line ("family" for an author line)
KeyOf(line) == IF Contains(line, <<"family", ":">>) THEN "family" ELSE Strip(line)[1]

\* Bodies of at most n lines drawn from `lines`, no key but family repeated
Bodies(lines, n) ==
    {b \in UNION {[1..k -> lines] : k \in 0..n} :
        \A i, j \in 1..Len(b) :
            (i # j /\ KeyOf(b[i]) = KeyOf(b[j])) => KeyOf(b[i]) = "family"}

----------------------------------------------------------------------------
(* The field extractor, lines 62-89 *)

author == <<"Stephens">>

\* `publisher` before its first assignment
Unbound == <<"<unbound>">>

TypeConference == <<"  ", "type", ":", " ", "conference">>
TypeJournal == <<"  ", "type", ":", " ", "journal">>

\* The value of a "key: value" line: line.split(":", 1)[1].strip()
Value(line) == Strip(AfterFirst(line, <<":">>))

\* The name of an author line: line.split("family:", 1)[1].strip()
FamilyName(line) == Strip(AfterFirst(line, <<"family", ":">>))

\* Mutant of BookVenue: the publisher is not substituted
BookVenueUnsubstituted(st) == st.container_title

\* The venue a book gets (line 87); reading an unbound local raises
BookVenue(st) == st.publisher

\* One iteration of the loop of line 69 on line idx; st holds the locals
ScanLine(st, idx) ==
    LET line == st.article_lines[idx]
        s == Strip(line)
    IN  IF Contains(line, <<"-", " ", "family", ":">>)
          THEN [st EXCEPT !.authors = Append(@, FamilyName(line))]
        ELSE IF StartsWith(s, <<"publisher", ":">>)
          THEN [st EXCEPT !.publisher = Value(line)]
        ELSE IF StartsWith(s, <<"container-title", ":">>)
          THEN [st EXCEPT !.container_title = Value(line)]
        ELSE IF StartsWith(s, <<"issued", ":">>)
          THEN [st EXCEPT !.issued_date = Value(line)]
        ELSE IF StartsWith(s, <<"doi", ":">>)
          THEN [st EXCEPT !.doi = Value(line)]
        ELSE IF StartsWith(s, <<"url", ":">>)
          THEN [st EXCEPT !.url = Value(line)]
        ELSE IF StartsWith(s, <<"type", ":">>)
          THEN LET bib_type == Value(line)
               IN  IF bib_type = <<"book">>
                     THEN IF st.publisher = Unbound
                            THEN [st EXCEPT !.article_lines[idx] = TypeConference,
                                            !.raised = TRUE]
                            ELSE [st EXCEPT !.article_lines[idx] = TypeConference,
                                            !.container_title = BookVenue(st)]
                   ELSE IF bib_type = <<"article-journal">>
                     THEN [st EXCEPT !.article_lines[idx] = TypeJournal]
                   ELSE st
        ELSE st

\* The loop of line 69 from line idx on; it stops when a line raises
RECURSIVE Scan(_, _)
Scan(st, idx) ==
    IF idx > Len(st.article_lines) \/ st.raised THEN st
    ELSE Scan(ScanLine(st, idx), idx + 1)

\* Lines 62-89: the locals after the loop, given the lines of stdout
Extract(pandoc_output_lines, pub) ==
    Scan([article_lines |-> PySlice(pandoc_output_lines, 3, 2),
          authors |-> <<>>, publisher |-> pub,
          container_title |-> <<>>, issued_date |-> <<>>,
          doi |-> <<>>, url |-> <<>>, raised |-> FALSE], 1)

----------------------------------------------------------------------------
(* The author-rank calculator, lines 90-97 *)

\* authors.index(author) + 1, or 0 where index raises ValueError
AuthorPos(authors) ==
    LET hits == {k \in 1..Len(authors) : authors[k] = author}
    IN  IF hits = {} THEN 0 ELSE CHOOSE k \in hits : \A h \in hits : k <= h

\* Mutant of PositionLine: the 0-based index is printed
PositionLineZeroBased(authors) ==
    LET author_pos == AuthorPos(authors)
    IN  IF author_pos # 0
        THEN <<"  ", "position", ":", " ", "'", ToString(author_pos - 1), "/",
               ToString(Len(authors)), "'">>
        ELSE <<"  ", "position", ":", " ", "'", "N/A", "/",
               ToString(Len(authors)), "'">>

PositionLine(authors) ==
    LET author_pos == AuthorPos(authors)
    IN  IF author_pos # 0
        THEN <<"  ", "position", ":", " ", "'", ToString(author_pos), "/",
               ToString(Len(authors)), "'">>
        ELSE <<"  ", "position", ":", " ", "'", "N/A", "/",
               ToString(Len(authors)), "'">>

\* Mutant of IsFirstAuthor: the target author counts wherever it is listed
IsListedAuthor(authors) == AuthorPos(authors) # 0

IsFirstAuthor(authors) == AuthorPos(authors) = 1

----------------------------------------------------------------------------
(* The lines one entry adds, lines 103-113 *)

TitleLines(st) ==
    IF st.container_title # <<>>
    THEN << <<"  ", "type-title", ":", " ", "'*">> \o st.container_title \o <<"*'">> >>
    ELSE <<>>

DateLines(st) ==
    IF st.issued_date # <<>> THEN << <<"  ", "date", ":", " ">> \o st.issued_date >>
    ELSE <<>>

\* Mutant of PathLines: the url line is appended before the doi line
PathLinesUrlFirst(st) ==
    (IF st.url # <<>> THEN << <<"  ", "path", ":", " ">> \o st.url >> ELSE <<>>)
    \o (IF st.doi # <<>>
          THEN << <<"  ", "path", ":", " ", "https://doi.org/">> \o st.doi >> ELSE <<>>)

PathLines(st) ==
    (IF st.doi # <<>>
       THEN << <<"  ", "path", ":", " ", "https://doi.org/">> \o st.doi >> ELSE <<>>)
    \o (IF st.url # <<>> THEN << <<"  ", "path", ":", " ">> \o st.url >> ELSE <<>>)

\* Mutant of EntryLines: the position line is appended twice
EntryLinesPositionTwice(st) ==
    st.article_lines \o TitleLines(st) \o DateLines(st) \o PathLines(st)
    \o <<PositionLine(st.authors), PositionLine(st.authors)>>

EntryLines(st) ==
    st.article_lines \o TitleLines(st) \o DateLines(st) \o PathLines(st)
    \o <<PositionLine(st.authors)>>

----------------------------------------------------------------------------
(* The files written at the end, lines 122-153 *)

Unwritten == [written |-> FALSE, text |-> <<>>]

\* with_suffix(".yml").name of the input file publications.bib
YmlName == <<"publications", ".yml">>

\* Lines 123-125: the joined lines and a final newline
YmlText(lines) == JoinLines(lines) \o <<"\n">>

\* Lines 128-129: total_articles and title_counts
TitleCounts(total_articles, first) ==
    <<ToString(first), " + ", ToString(total_articles - first)>>

\* Lines 131-151: the title line and the listing's contents of the template
QmdText(total_articles, first) ==
    [written |-> TRUE,
     title |-> <<"Publications (">> \o TitleCounts(total_articles, first) \o <<")">>,
     contents |-> YmlName]

----------------------------------------------------------------------------
(* The steps of create_pub_listing *)

\* Lines 26-45: read the file, split it, start with nothing accumulated
ReadAndSplit ==
    /\ pc = "read"
    /\ bib_entries' = SplitEntries(bib_content)
    /\ pc' = "for"
    /\ UNCHANGED <<bib_content, pandoc, entry_i, all_articles_yaml_lines,
                   first_author_count, publisher, temp_bib_path, tmpfiles, exc,
                   yml_file, qmd_file, emitted>>

\* Lines 48-52: take the next entry and write it to a new scratch file
NextEntry ==
    /\ pc = "for"
    /\ entry_i < Len(bib_entries)
    /\ entry_i' = entry_i + 1
    /\ temp_bib_path' = entry_i + 1
    /\ tmpfiles' = tmpfiles \cup {[name |-> entry_i + 1, text |-> bib_entries[entry_i + 1]]}
    /\ pc' = "try"
    /\ UNCHANGED <<bib_content, pandoc, bib_entries, all_articles_yaml_lines,
                   first_author_count, publisher, exc, yml_file, qmd_file, emitted>>

\* Lines 56-59 and 116-117: the formatter exits non-zero; the error is caught
PandocFails ==
    /\ pc = "try"
    /\ pandoc[entry_i].returncode # 0
    /\ emitted' = Append(emitted, <<>>)
    /\ pc' = "finally"
    /\ UNCHANGED <<bib_content, pandoc, bib_entries, entry_i,
                   all_articles_yaml_lines, first_author_count, publisher,
                   temp_bib_path, tmpfiles, exc, yml_file, qmd_file>>

\* Lines 56-113: the formatter succeeds and the entry's lines are appended
RenderEntry ==
    /\ pc = "try"
    /\ pandoc[entry_i].returncode = 0
    /\ LET st == Extract(pandoc[entry_i].stdout, publisher)
       IN  /\ ~st.raised
           /\ all_articles_yaml_lines' = all_articles_yaml_lines \o EntryLines(st)
           /\ first_author_count' =
                  first_author_count + (IF IsFirstAuthor(st.authors) THEN 1 ELSE 0)
           /\ publisher' = st.publisher
           /\ emitted' = Append(emitted, EntryLines(st))
    /\ pc' = "finally"
    /\ UNCHANGED <<bib_content, pandoc, bib_entries, entry_i, temp_bib_path,
                   tmpfiles, exc, yml_file, qmd_file>>

\* Lines 56-87: the formatter succeeds and line 87 reads the unbound
\* `publisher`: UnboundLocalError, which no except clause catches
RenderRaises ==
    /\ pc = "try"
    /\ pandoc[entry_i].returncode = 0
    /\ Extract(pandoc[entry_i].stdout, publisher).raised
    /\ exc' = TRUE
    /\ emitted' = Append(emitted, <<>>)
    /\ pc' = "finally"
    /\ UNCHANGED <<bib_content, pandoc, bib_entries, entry_i,
                   all_articles_yaml_lines, first_author_count, publisher,
                   temp_bib_path, tmpfiles, yml_file, qmd_file>>

\* Path(temp_bib_path).unlink()
Unlink(files, path) == {f \in files : f.name # path}

\* Mutant of Finally: the scratch file is unlinked after the try statement
\* instead of in a finally clause, so not when an exception propagates
UnlinkAfterTry ==
    /\ pc = "finally"
    /\ tmpfiles' = IF exc THEN tmpfiles ELSE Unlink(tmpfiles, temp_bib_path)
    /\ pc' = IF exc THEN "raised" ELSE "for"
    /\ UNCHANGED <<bib_content, pandoc, bib_entries, entry_i,
                   all_articles_yaml_lines, first_author_count, publisher,
                   temp_bib_path, exc, yml_file, qmd_file, emitted>>

\* Lines 119-120: the finally clause; then the next entry, or the exception
\* leaves the function
Finally ==
    /\ pc = "finally"
    /\ tmpfiles' = Unlink(tmpfiles, temp_bib_path)
    /\ pc' = IF exc THEN "raised" ELSE "for"
    /\ UNCHANGED <<bib_content, pandoc, bib_entries, entry_i,
                   all_articles_yaml_lines, first_author_count, publisher,
                   temp_bib_path, exc, yml_file, qmd_file, emitted>>

\* Lines 123-125: after the last entry, write the data file
WriteYml ==
    /\ pc = "for"
    /\ entry_i >= Len(bib_entries)
    /\ yml_file' = [written |-> TRUE, text |-> YmlText(all_articles_yaml_lines)]
    /\ pc' = "write_qmd"
    /\ UNCHANGED <<bib_content, pandoc, bib_entries, entry_i,
                   all_articles_yaml_lines, first_author_count, publisher,
                   temp_bib_path, tmpfiles, exc, qmd_file, emitted>>

\* Lines 128-155: write the definition document and return
WriteQmd ==
    /\ pc = "write_qmd"
    /\ qmd_file' = QmdText(Len(bib_entries), first_author_count)
    /\ pc' = "done"
    /\ UNCHANGED <<bib_content, pandoc, bib_entries, entry_i,
                   all_articles_yaml_lines, first_author_count, publisher,
                   temp_bib_path, tmpfiles, exc, yml_file, emitted>>

Next ==
    \/ ReadAndSplit
    \/ NextEntry
    \/ PandocFails
    \/ RenderEntry
    \/ RenderRaises
    \/ Finally
    \/ WriteYml
    \/ WriteQmd

----------------------------------------------------------------------------
(* Runs *)

\* The state when the function has read bib_content and the formatter
\* answers `results` (one result per entry)
Start(text, results) ==
    /\ pc = "read"
    /\ bib_content = text
    /\ pandoc = results
    /\ bib_entries = <<>>
    /\ entry_i = 0
    /\ all_articles_yaml_lines = <<>>
    /\ first_author_count = 0
    /\ publisher = Unbound
    /\ temp_bib_path = 0
    /\ tmpfiles = {}
    /\ exc = FALSE
    /\ yml_file = Unwritten
    /\ qmd_file = [written |-> FALSE, title |-> <<>>, contents |-> <<>>]
    /\ emitted = <<>>

\* A bibliography of n entries "@a"
RECURSIVE Text(_)
Text(n) ==
    IF n = 0 THEN <<>>
    ELSE IF n = 1 THEN <<"@", "a">>
    ELSE Text(n - 1) \o <<"\n", "@", "a">>

Outcomes(bodies) == {Failed} \cup {Rendered(b) : b \in bodies}

\* Pipeline runs: up to MaxEntries entries, each failing or rendering a few
\* author, publisher and type lines
RunLines ==
    {FamilyLine("Stephens"), FamilyLine("Smith"),
     Field("publisher", <<"ACM">>), Field("type", <<"book">>)}

Init ==
    \E n \in 0..MaxEntries :
        \E results \in [1..Len(SplitEntries(Text(n))) -> Outcomes(Bodies(RunLines, MaxRunLines))] :
            Start(Text(n), results)

Spec == Init /\ [][Next]_vars

\* Field runs: the last entry renders any body of up to MaxLines lines; an
\* entry before it, if any, failed or set a publisher
FieldLines ==
    {FamilyLine(a) : a \in {"Smith", "Stephens", "Lee"}}
    \cup {Field("type", <<t>>) : t \in {"book", "article-journal", "thesis"}}
    \cup {Field("publisher", <<"ACM">>), Field("container-title", <<"JCP">>),
          Field("issued", <<"2020">>), Field("doi", <<"10.1/x">>),
          Field("url", <<"http://u">>)}

PriorOutcomes == {Failed, Rendered(<<Field("publisher", <<"IEEE">>)>>)}

InitFields ==
    \E n \in 1..2 :
        \E o \in Outcomes(Bodies(FieldLines, MaxLines)), p \in PriorOutcomes :
            Start(Text(n), [j \in 1..n |-> IF j = n THEN o ELSE p])

SpecFields == InitFields /\ [][Next]_vars

\* Splitter runs: every text of up to MaxTextLen characters
Chars == {"@", "\n", " ", "a"}

Texts == UNION {[1..k -> Chars] : k \in 0..MaxTextLen}

SplitOutcomes == Outcomes({<<>>, <<Field("type", <<"book">>)>>})

InitSplit ==
    \E text \in Texts :
        \E results \in [1..Len(SplitEntries(text)) -> SplitOutcomes] :
            Start(text, results)

SpecSplit == InitSplit /\ [][Next]_vars

----------------------------------------------------------------------------
(* Vocabulary of the properties *)

Processed == 1..Len(emitted)

FormatterFailed(i) == pandoc[i].returncode # 0

\* The formatter's own lines for entry i, inside the framing
BodyOf(i) == PySlice(pandoc[i].stdout, Len(Header), Len(Footer))

\* Entry i has a record in the output
HasRecord(i) == i \in Processed /\ emitted[i] # <<>>

IsFamily(line) == KeyOf(line) = "family"
IsKeyLine(line, key) == line # <<>> /\ KeyOf(line) = key
IsTypeTitle(line) == IsKeyLine(line, "type-title")
IsDate(line) == IsKeyLine(line, "date")
IsPath(line) == IsKeyLine(line, "path")
IsPosition(line) == IsKeyLine(line, "position")

\* The last token of a line: the value of a one-token field
LastToken(line) == line[Len(line)]

\* The family names of a body, in order
FamilyOf(line) == LastToken(line)
RECURSIVE Families(_)
Families(body) ==
    IF body = <<>> THEN <<>>
    ELSE (IF IsFamily(body[1]) THEN <<FamilyOf(body[1])>> ELSE <<>>)
         \o Families(Tail(body))

\* Where key occurs in a body (0: nowhere) and its value there
IndexOfKey(body, key) ==
    IF \E k \in 1..Len(body) : KeyOf(body[k]) = key
    THEN CHOOSE k \in 1..Len(body) : KeyOf(body[k]) = key
    ELSE 0
HasKey(body, key) == IndexOfKey(body, key) # 0
ValueOfKey(body, key) == LastToken(body[IndexOfKey(body, key)])

\* Occurrences of a token in a text
Count(text, tok) == Cardinality({k \in 1..Len(text) : text[k] = tok})

----------------------------------------------------------------------------
(* Properties of pipeline runs (Spec) *)

FailedEntries == {i \in 1..Len(bib_entries) : FormatterFailed(i)}

\* C1: when the function has finished, the data file holds exactly one
\* record (one "position:" line) per entry whose formatter invocation
\* succeeded and none for the others: as many records as entries minus
\* failed entries; and no entry ever adds more than one record.
C1_OneRecordPerRenderedEntry ==
    /\ \A i \in Processed :
          Cardinality({k \in 1..Len(emitted[i]) : IsPosition(emitted[i][k])}) <= 1
    /\ pc = "done" =>
          /\ yml_file.written
          /\ Count(yml_file.text, "position")
                = Len(bib_entries) - Cardinality(FailedEntries)
          /\ \A i \in 1..Len(bib_entries) : HasRecord(i) <=> ~FormatterFailed(i)

C1_Witness ==
    /\ pc = "done"
    /\ Len(bib_entries) = 2
    /\ Cardinality(FailedEntries) = 1
    /\ Count(yml_file.text, "position") = 1

\* C2 (as claimed): an entry whose formatter exits non-zero adds no line and
\* does not change the first-author counter, and once an entry has failed
\* the run still ends with the data file and the definition document (which
\* references the data file) written.
C2_FailureSkippedRunCompletes ==
    /\ \A i \in Processed : FormatterFailed(i) => emitted[i] = <<>>
    /\ first_author_count =
          Cardinality({i \in Processed :
              HasRecord(i) /\ Families(BodyOf(i)) # <<>>
                           /\ Families(BodyOf(i))[1] = author[1]})
    /\ ((\E i \in Processed : FormatterFailed(i)) /\ pc \in {"done", "raised"}) =>
          /\ pc = "done"
          /\ yml_file.written
          /\ qmd_file.written
          /\ qmd_file.contents = YmlName

\* C3: a scratch file is deleted before the next one is created and before
\* the function ends, on success, on a formatter failure and on any other
\* error alike: at most one exists at any moment, it is the current entry's,
\* and none exists between entries or once the run has ended.
C3_ScratchAlwaysReleased ==
    /\ Cardinality(tmpfiles) <= 1
    /\ \A f \in tmpfiles : f.name = temp_bib_path /\ pc \in {"try", "finally"}
    /\ pc \in {"read", "for", "write_qmd", "done", "raised"} => tmpfiles = {}

C3_Witness ==
    /\ pc = "raised"
    /\ \E i \in Processed : FormatterFailed(i)
    /\ tmpfiles = {}

\* Entry i lists the target author first
FirstListed(i) ==
    /\ ~FormatterFailed(i)
    /\ Families(BodyOf(i)) # <<>>
    /\ Families(BodyOf(i))[1] = author[1]

FirstListedCount == Cardinality({i \in 1..Len(bib_entries) : FirstListed(i)})

\* C4: the title of the emitted definition document is
\* 'Publications (k + (N-k))' for N entries of which k list the target
\* author first.
C4_TitleCounts ==
    pc = "done" =>
        /\ qmd_file.written
        /\ qmd_file.title =
              <<"Publications (", ToString(FirstListedCount), " + ",
                ToString(Len(bib_entries) - FirstListedCount), ")">>

C4_Witness ==
    /\ pc = "done"
    /\ Len(bib_entries) = 2
    /\ FirstListedCount = 1
    /\ \E i \in 1..2 : Families(BodyOf(i)) = <<"Smith", "Stephens">>

\* The record entry i gets when it is the first entry of a run (<<>>: none)
RecordAlone(i) ==
    LET st == Extract(pandoc[i].stdout, Unbound)
    IN  IF st.raised THEN <<>> ELSE EntryLines(st)

\* C9 (as claimed): the record of an entry is determined by its own
\* formatter output and the target author alone, whatever entries were
\* processed before it: it is the record the same output gets as the first
\* entry of a run, so no value of an earlier entry appears in it.
C9_RecordFromOwnOutputOnly ==
    \A i \in Processed : ~FormatterFailed(i) => emitted[i] = RecordAlone(i)

----------------------------------------------------------------------------
(* Properties of the record of one entry (SpecFields) *)

Last(seq) == seq[Len(seq)]

\* The value tokens of a "  key: value" line
ValueTokens(line) == SubSeq(line, 5, Len(line))

\* C5: the position value of a record is '<p>/<len(A)>' with p the 1-based
\* index of the first author equal to the target, and 'N/A/<len(A)>' when
\* no author equals it (the empty list gives 'N/A/0').
C5_PositionValue ==
    \A i \in Processed : HasRecord(i) =>
        LET A == Families(BodyOf(i))
            v == ValueTokens(Last(emitted[i]))
        IN  /\ IsPosition(Last(emitted[i]))
            /\ Len(v) = 5
            /\ v[1] = "'" /\ v[3] = "/" /\ v[4] = ToString(Len(A)) /\ v[5] = "'"
            /\ IF \E p \in 1..Len(A) : A[p] = author[1]
               THEN \E p \in 1..Len(A) :
                       /\ A[p] = author[1]
                       /\ \A q \in 1..(p - 1) : A[q] # author[1]
                       /\ v[2] = ToString(p)
               ELSE v[2] = "N/A"

C5_Witness ==
    \E i \in Processed :
        /\ HasRecord(i)
        /\ Families(BodyOf(i)) = <<"Smith", "Stephens", "Lee">>
        /\ ValueTokens(Last(emitted[i])) = <<"'", "2", "/", "3", "'">>

\* The venue lines and the type line of a record
VenueOf(record) == SelectSeq(record, IsTypeTitle)
VenueLine(title) == <<"  ", "type-title", ":", " ", "'*", title, "*'">>
ContainerVenue(body) ==
    IF HasKey(body, "container-title")
    THEN <<VenueLine(ValueOfKey(body, "container-title"))>>
    ELSE <<>>

\* The record keeps every formatter line but the type line, which becomes t
TypeLineIs(record, body, t) ==
    /\ Len(record) > Len(body)
    /\ \A k \in 1..Len(body) :
          record[k] = IF KeyOf(body[k]) = "type" THEN t ELSE body[k]

\* C6 (as claimed): a book with publisher P gets 'type: conference' and the
\* venue '*P*' whatever the order of the publisher, container-title and
\* type lines; an article-journal gets 'type: journal' and keeps the
\* container-title as venue; any other type keeps its type line and venue.
C6_CategoryAnyOrder ==
    \A i \in Processed : (HasRecord(i) /\ HasKey(BodyOf(i), "type")) =>
        LET body == BodyOf(i)
            type == ValueOfKey(body, "type")
        IN  IF type = "book"
            THEN /\ TypeLineIs(emitted[i], body, TypeConference)
                 /\ HasKey(body, "publisher") =>
                       VenueOf(emitted[i]) = <<VenueLine(ValueOfKey(body, "publisher"))>>
            ELSE IF type = "article-journal"
            THEN /\ TypeLineIs(emitted[i], body, TypeJournal)
                 /\ VenueOf(emitted[i]) = ContainerVenue(body)
            ELSE /\ TypeLineIs(emitted[i], body, body[IndexOfKey(body, "type")])
                 /\ VenueOf(emitted[i]) = ContainerVenue(body)

\* The publisher line comes before the type line and no container-title
\* line comes after it
PublisherThenType(body) ==
    /\ HasKey(body, "publisher")
    /\ IndexOfKey(body, "publisher") < IndexOfKey(body, "type")
    /\ IndexOfKey(body, "container-title") < IndexOfKey(body, "type")

\* C6 (amended): as above, but a book gets its publisher P as venue when its
\* publisher line precedes its type line and no container-title line
\* follows the type line.
C6_CategoryInFormatterOrder ==
    \A i \in Processed : (HasRecord(i) /\ HasKey(BodyOf(i), "type")) =>
        LET body == BodyOf(i)
            type == ValueOfKey(body, "type")
        IN  IF type = "book"
            THEN /\ TypeLineIs(emitted[i], body, TypeConference)
                 /\ PublisherThenType(body) =>
                       VenueOf(emitted[i]) = <<VenueLine(ValueOfKey(body, "publisher"))>>
            ELSE IF type = "article-journal"
            THEN /\ TypeLineIs(emitted[i], body, TypeJournal)
                 /\ VenueOf(emitted[i]) = ContainerVenue(body)
            ELSE /\ TypeLineIs(emitted[i], body, body[IndexOfKey(body, "type")])
                 /\ VenueOf(emitted[i]) = ContainerVenue(body)

C6_Witness ==
    \E i \in Processed :
        /\ HasRecord(i)
        /\ BodyOf(i) = <<Field("container-title", <<"JCP">>),
                         Field("publisher", <<"ACM">>), Field("type", <<"book">>)>>
        /\ VenueOf(emitted[i]) = <<VenueLine("ACM")>>
        /\ emitted[i][3] = TypeConference

\* C7 (as claimed): a missing field is never fatal: whatever fields the
\* formatter output of a rendered entry lacks and whatever its type, no
\* error is raised, the entry gets its record, and the derived line of an
\* absent field (type-title, date, path) is left out of the record.
C7_MissingFieldNeverFatal ==
    /\ ~exc
    /\ pc # "raised"
    /\ \A i \in Processed : ~FormatterFailed(i) =>
          LET body == BodyOf(i)
          IN  /\ HasRecord(i)
              /\ (~HasKey(body, "container-title") /\ ~HasKey(body, "publisher"))
                    => VenueOf(emitted[i]) = <<>>
              /\ ~HasKey(body, "issued") => SelectSeq(emitted[i], IsDate) = <<>>
              /\ (~HasKey(body, "doi") /\ ~HasKey(body, "url"))
                    => SelectSeq(emitted[i], IsPath) = <<>>

\* The path lines a body's doi and url call for
DoiPath(body) ==
    IF HasKey(body, "doi")
    THEN << <<"  ", "path", ":", " ", "https://doi.org/", ValueOfKey(body, "doi")>> >>
    ELSE <<>>
UrlPath(body) ==
    IF HasKey(body, "url")
    THEN << <<"  ", "path", ":", " ", ValueOfKey(body, "url")>> >>
    ELSE <<>>

\* C8: a record's path lines are the doi-derived one, if the entry has a
\* doi, then the url verbatim, if it has a url (both, one or none); they
\* come after the formatter's own lines and before the position line.
C8_LinkLines ==
    \A i \in Processed : HasRecord(i) =>
        LET body == BodyOf(i)
            record == emitted[i]
        IN  /\ SelectSeq(record, IsPath) = DoiPath(body) \o UrlPath(body)
            /\ IsPosition(Last(record))
            /\ \A k \in 1..Len(record) :
                  IsPath(record[k]) => (Len(body) < k /\ k < Len(record))
            /\ \A k \in 1..Len(body) : KeyOf(record[k]) = KeyOf(body[k])

C8_Witness ==
    \E i \in Processed :
        /\ HasRecord(i)
        /\ HasKey(BodyOf(i), "doi") /\ HasKey(BodyOf(i), "url")
        /\ IndexOfKey(BodyOf(i), "url") < IndexOfKey(BodyOf(i), "doi")
        /\ SelectSeq(emitted[i], IsPath)
              = << <<"  ", "path", ":", " ", "https://doi.org/", "10.1/x">>,
                   <<"  ", "path", ":", " ", "http://u">> >>

----------------------------------------------------------------------------
(* Properties of the splitter (SpecSplit) *)

Fragments == PySplit(Strip(bib_content), Marker)

\* C10 (as claimed): one entry per fragment of the trimmed text, empty
\* fragments included, in order; each is its fragment with '@' put back in
\* front, except a first fragment that already starts with '@'.
C10_NoFragmentDropped ==
    pc # "read" =>
        /\ Len(bib_entries) = Len(Fragments)
        /\ \A k \in 1..Len(Fragments) :
              bib_entries[k] =
                  IF k = 1 /\ StartsWith(Fragments[1], <<"@">>)
                  THEN Fragments[1]
                  ELSE <<"@">> \o Fragments[k]

\* The fragments that are not blank, and the place of fragment k among them
Kept == {k \in 1..Len(Fragments) : \E j \in 1..Len(Fragments[k]) : ~IsSpace(Fragments[k][j])}
Rank(k) == Cardinality({m \in Kept : m <= k})

\* C10 (amended): one entry per fragment that is not blank (empty or all
\* whitespace), in order; blank fragments are dropped.  A later fragment
\* gets '@' put back in front; the first fragment is trimmed of whitespace
\* and gets '@' in front unless it already starts with '@'.
C10_BlankFragmentsDropped ==
    pc # "read" =>
        /\ Len(bib_entries) = Cardinality(Kept)
        /\ \A k \in Kept :
              bib_entries[Rank(k)] =
                  IF k > 1 THEN <<"@">> \o Fragments[k]
                  ELSE IF Fragments[1][1] = "@" THEN RStrip(Fragments[1])
                  ELSE <<"@">> \o RStrip(Fragments[1])

C10_Witness ==
    /\ pc # "read"
    /\ Len(Fragments) = 3
    /\ Kept = {1, 3}
    /\ Len(bib_entries) = 2

====
